---- MODULE Spec2Model ----
(***************************************************************************)
(* Watch-progress tracking of the ML Studio dashboard:                     *)
(*   - the Progress Store client (src/lib/userProgress.js):                *)
(*     getUserProgress and saveVideoProgress over a per-user document;     *)
(*   - the VideoCard component (src/components/VideoCard.jsx): the seeding *)
(*     read, the player-ready handler that starts the 1000 ms sampling     *)
(*     interval, the interval callback, the ended-signal handler and the   *)
(*     unmount cleanup.                                                    *)
(* A JavaScript closure captures the constants of the render that created  *)
(* it, so every interval carries the completed / user / videoId values of  *)
(* the render in which the player became ready.                            *)
(***************************************************************************)
EXTENDS Integers, Sequences, FiniteSets, TLC

\* ------------------------------------------------------------------ bounds
MaxEvents == 3      \* player-ready events, videoId switches and auth changes of one mount;
                    \* model selections of PredictionStudio; clicks in ModelBuilder
MaxWrites == 2      \* saveVideoProgress calls of one behaviour
MaxHistory == 2     \* entries of the router's history stack

\* --------------------------------------------------------------- constants
Threshold == 80     \* completion threshold, in percent
EndedPct  == 100    \* percent forced by the ended signal
YT_ENDED  == 0      \* YouTube player state "ended"

Users   == {"u1", "u2"}
NoUser  == ""                       \* auth.currentUser === null / falsy uid
Videos  == {"A", "B"}
NoPlayer == "null"
Player   == "player"

\* player readings <<getCurrentTime(), getDuration()>> a tick can observe: 5 and
\* 85 percent, and no duration yet (the readings around 80 are in TickSamples)
Samples == { <<10, 200>>, <<170, 200>>, <<50, 0>> }
\* player states delivered to onStateChange (0 ended, 1 playing)
PlayerStates == {0, 1}

VARIABLES
  authUser,     \* auth.currentUser (uid, or NoUser)
  user,         \* the `user` constant of the latest render
  everUser,     \* history: auth.currentUser was non-null at some time of the mount
  videoId,      \* the videoId prop of the latest render
  mountedCard,  \* the component instance is mounted
  pct,          \* useState pct
  completed,    \* useState completed
  playerRef,    \* playerRef.current
  pollRef,      \* pollRef.current: id of the interval last started, 0 for null
  timers,       \* live intervals: id -> the closure of their callback
  nextTimer,    \* number of intervals started so far
  loads,        \* seeding reads in flight: uid, videoId, the effect's `mounted`
  seed,         \* the read of the latest run of the load effect
  writes,       \* saveVideoProgress calls that reached setDoc, in call order
  store,        \* Firestore collection "users": uid -> document
  clock,        \* Date.now()
  events,       \* player-ready events, switches and auth changes so far
  api,          \* outcome of the latest direct call of the store client
  app,          \* App: its `user` state and the router's history stack
  studio,       \* PredictionStudio: selection, features, inputs, requests
  builder       \* ModelBuilder: training and save state and requests

vars == << authUser, user, everUser, videoId, mountedCard, pct, completed,
           playerRef, pollRef, timers, nextTimer, loads, seed, writes,
           store, clock, events, api, app, studio, builder >>

\* the state of the VideoCard and of the Progress Store
cardVars == << authUser, user, everUser, videoId, mountedCard, pct, completed,
               playerRef, pollRef, timers, nextTimer, loads, seed, writes,
               store, clock, events, api >>

\* ------------------------------------------------------------ percentages
\* A percent is the exact rational num/den (current / duration * 100).
Percent(cur, dur) == [num |-> 100 * cur, den |-> dur]
Exactly(n)        == [num |-> n, den |-> 1]

\* the threshold tested on the rounded percent
GE80Rounded(p) == (2 * p.num + p.den) \div (2 * p.den) >= Threshold

\* pct >= 80
GE80(p) == p.num >= Threshold * p.den

\* Math.floor(pct)
RoundDown(p) == p.num \div p.den

\* Math.round(pct) for pct >= 0: the nearest integer, halves up
Round(p) == (2 * p.num + p.den) \div (2 * p.den)

\* ----------------------------------------------------------------- store
NoRec  == [present |-> FALSE, completed |-> FALSE, pct |-> 0, updatedAt |-> 0]
NoDoc  == [exists |-> FALSE, hasVP |-> FALSE, vp |-> [v \in Videos |-> NoRec]]
EmptyStore == [u \in Users |-> NoDoc]

\* getUserProgress that keeps the finished records only
GetUserProgressFinishedOnly(st, uid) ==
  IF uid = NoUser THEN [v \in Videos |-> NoRec]
  ELSE IF ~st[uid].exists THEN [v \in Videos |-> NoRec]
  ELSE IF ~st[uid].hasVP THEN [v \in Videos |-> NoRec]
  ELSE [v \in Videos |-> IF st[uid].vp[v].completed THEN st[uid].vp[v] ELSE NoRec]

\* getUserProgress(uid): the videoProgress map, {} when there is none
GetUserProgress(st, uid) ==
  IF uid = NoUser THEN [v \in Videos |-> NoRec]
  ELSE IF ~st[uid].exists THEN [v \in Videos |-> NoRec]
  ELSE IF ~st[uid].hasVP THEN [v \in Videos |-> NoRec]
  ELSE st[uid].vp

\* a fragment that marks every saved record completed
SaveVideoProgressAlwaysCompleted(uid, vid, p, now, by) ==
  [uid |-> uid, videoId |-> vid,
   completed |-> TRUE, pct |-> Round(p), updatedAt |-> now,
   num |-> p.num, den |-> p.den, by |-> by, st |-> "pending"]

\* the document fragment saveVideoProgress hands to setDoc
SaveVideoProgress(uid, vid, p, now, by) ==
  [uid |-> uid, videoId |-> vid,
   completed |-> GE80(p), pct |-> Round(p), updatedAt |-> now,
   num |-> p.num, den |-> p.den, by |-> by, st |-> "pending"]

\* setDoc without {merge: true}: the document is replaced by the fragment
SetDocNoMerge(st, w) ==
  [st EXCEPT ![w.uid] =
     [exists |-> TRUE, hasVP |-> TRUE,
      vp |-> [v \in Videos |->
                IF v = w.videoId
                THEN [present |-> TRUE, completed |-> w.completed,
                      pct |-> w.pct, updatedAt |-> w.updatedAt]
                ELSE NoRec]]]

\* an update that does not create a missing document
SetDocUpdateOnly(st, w) ==
  IF st[w.uid].exists
  THEN [st EXCEPT ![w.uid] =
          [exists |-> TRUE, hasVP |-> TRUE,
           vp |-> [@.vp EXCEPT ![w.videoId] =
                     [present |-> TRUE, completed |-> w.completed,
                      pct |-> w.pct, updatedAt |-> w.updatedAt]]]]
  ELSE st

\* setDoc(dref, {videoProgress: {[videoId]: rec}}, {merge: true}): the fragment
\* is merged into the document, which is created when absent
SetDoc(st, w) ==
  [st EXCEPT ![w.uid] =
     [exists |-> TRUE, hasVP |-> TRUE,
      vp |-> [@.vp EXCEPT ![w.videoId] =
                [present |-> TRUE, completed |-> w.completed,
                 pct |-> w.pct, updatedAt |-> w.updatedAt]]]]

\* no direct call of the store client has ended yet
NoCall == [op |-> "none", uid |-> NoUser, map |-> [v \in Videos |-> NoRec]]

\* the pages other than the learning pages are not open
NoApp == [user |-> NoUser, hist |-> << >>]
NoStudio == [modelList |-> {}, loadingModels |-> FALSE,
             selected |-> "", featureNames |-> {}, inputKeys |-> {},
             loadingFeatures |-> FALSE, reqs |-> << >>, selections |-> 0]
NoBuilder == [signedIn |-> FALSE, form |-> FALSE, trainMetrics |-> 0,
              sessionId |-> 0, loadingTrain |-> FALSE, savingModel |-> FALSE,
              train |-> "none", save |-> "none", saveSid |-> 0, attempts |-> 0,
              clicks |-> 0]

\* The store before the mount: an earlier VideoCard completion has written
\* u1's record of video A; u1 has no record of video B and u2 no document.
DoneRec == [present |-> TRUE, completed |-> TRUE, pct |-> 85, updatedAt |-> 0]
PriorStore ==
  [EmptyStore EXCEPT !["u1"] =
     [exists |-> TRUE, hasVP |-> TRUE,
      vp |-> [v \in Videos |-> IF v = "A" THEN DoneRec ELSE NoRec]]]

\* ------------------------------------------------------------- rendering
\* the cleanup of the load effect: mounted = false
Cleanup(ls) == [i \in DOMAIN ls |-> [ls[i] EXCEPT !.mounted = FALSE]]

NewLoad(u, vid) == [uid |-> u, videoId |-> vid, mounted |-> TRUE]

\* a sequence without its i-th element
RemoveAt(q, i) == SubSeq(q, 1, i - 1) \o SubSeq(q, i + 1, Len(q))

\* a render whose load effect lacks the `if (!user) return` guard
RenderReadsWithoutUser(rerender, vid, ls, sd) ==
  LET newUser == IF rerender THEN authUser ELSE user
      deps    == newUser # user \/ vid # videoId
  IN  /\ user' = newUser
      /\ videoId' = vid
      /\ IF deps
         THEN /\ loads' = Append(Cleanup(ls), NewLoad(newUser, vid))
              /\ seed' = "pending"
         ELSE /\ loads' = ls
              /\ seed' = sd

\* A render of VideoCard: `user` is read from auth.currentUser, and the load
\* effect runs again when user or videoId differ from the previous render.
\* rerender: the handler changed state or props; ls, sd: loads and seed after
\* the handler.
Render(rerender, vid, ls, sd) ==
  LET newUser == IF rerender THEN authUser ELSE user
      deps    == newUser # user \/ vid # videoId
  IN  /\ user' = newUser
      /\ videoId' = vid
      /\ IF deps /\ newUser # NoUser
         THEN /\ loads' = Append(Cleanup(ls), NewLoad(newUser, vid))
              /\ seed' = "pending"
         ELSE /\ loads' = IF deps THEN Cleanup(ls) ELSE ls
              /\ seed' = IF deps THEN "none" ELSE sd

\* clearInterval(id): the interval id stops; a null or stale id is ignored
NoTimers == [i \in {} |-> 0]
ClearInterval(ts, id) == [i \in DOMAIN ts \ {id} |-> ts[i]]
\* setInterval(callback): a new live interval whose callback holds closure cl
SetInterval(ts, id, cl) ==
  [i \in DOMAIN ts \cup {id} |-> IF i = id THEN cl ELSE ts[i]]

Init ==
  /\ authUser \in {NoUser, "u1"}
  /\ user = authUser
  /\ everUser = (authUser # NoUser)
  /\ videoId \in Videos
  /\ mountedCard = TRUE
  /\ pct = 0
  /\ completed = FALSE
  /\ playerRef = NoPlayer
  /\ pollRef = 0
  /\ timers = NoTimers
  /\ nextTimer = 0
  /\ loads = IF authUser # NoUser THEN << NewLoad(authUser, videoId) >> ELSE << >>
  /\ seed = IF authUser # NoUser THEN "pending" ELSE "none"
  /\ writes = << >>
  /\ store = PriorStore
  /\ clock = 1
  /\ events = 0
  /\ api = NoCall
  /\ app = NoApp
  /\ studio = NoStudio
  /\ builder = NoBuilder

\* The caller of saveVideoProgress handles a rejection: the tick awaits the call
\* inside try / catch, the ended handler calls it without await or catch.
CatchesRejection(by) == by = "tick"

\* ------------------------------------------------ VideoCard: seeding read
\* a load that seeds the state whether or not its effect has been cleaned up
LoadResolveNoMountedFlag(i) ==
  /\ i \in DOMAIN loads
  /\ LET v     == GetUserProgress(store, loads[i].uid)[loads[i].videoId]
         seeds == v.present
         newC  == IF seeds THEN v.completed ELSE completed
         newP  == IF seeds THEN v.pct ELSE pct
     IN  /\ completed' = newC
         /\ pct' = newP
         /\ Render(newC # completed \/ newP # pct, videoId, RemoveAt(loads, i),
                   IF loads[i].mounted THEN "resolved" ELSE seed)
  /\ UNCHANGED << authUser, everUser, mountedCard, playerRef, pollRef, timers,
                  nextTimer, writes, store, clock, events, api,
                  app, studio, builder >>

\* load(): getUserProgress resolves; v = progress[videoId]; if (v && mounted)
LoadResolve(i) ==
  /\ i \in DOMAIN loads
  /\ LET v     == GetUserProgress(store, loads[i].uid)[loads[i].videoId]
         seeds == v.present /\ loads[i].mounted
         newC  == IF seeds THEN v.completed ELSE completed
         newP  == IF seeds THEN v.pct ELSE pct
     IN  /\ completed' = newC
         /\ pct' = newP
         /\ Render(newC # completed \/ newP # pct, videoId, RemoveAt(loads, i),
                   IF loads[i].mounted THEN "resolved" ELSE seed)
  /\ UNCHANGED << authUser, everUser, mountedCard, playerRef, pollRef, timers,
                  nextTimer, writes, store, clock, events, api,
                  app, studio, builder >>

\* a catch block that gives up tracking: it also stops the poll
LoadRejectStopsPoll(i) ==
  /\ i \in DOMAIN loads
  /\ loads' = RemoveAt(loads, i)
  /\ seed' = IF loads[i].mounted THEN "rejected" ELSE seed
  /\ timers' = ClearInterval(timers, pollRef)
  /\ UNCHANGED << authUser, user, everUser, videoId, mountedCard, pct, completed,
                  playerRef, pollRef, nextTimer, writes, store, clock, events, api,
                  app, studio, builder >>

\* load(): getUserProgress rejects; the catch logs a warning
LoadReject(i) ==
  /\ i \in DOMAIN loads
  /\ loads' = RemoveAt(loads, i)
  /\ seed' = IF loads[i].mounted THEN "rejected" ELSE seed
  /\ UNCHANGED << authUser, user, everUser, videoId, mountedCard, pct, completed,
                  playerRef, pollRef, timers, nextTimer, writes, store, clock, events, api,
                  app, studio, builder >>

\* ------------------------------------------------- VideoCard: player ready
\* onReady without the clearInterval of the previous poll
OnReadyNoClear ==
  /\ events < MaxEvents
  /\ events' = events + 1
  /\ playerRef' = Player
  /\ nextTimer' = nextTimer + 1
  /\ pollRef' = nextTimer + 1
  /\ timers' = SetInterval(timers, nextTimer + 1,
                  [completed |-> completed, user |-> user, videoId |-> videoId])
  /\ UNCHANGED << authUser, user, everUser, videoId, mountedCard, pct, completed,
                  loads, seed, writes, store, clock, api,
                  app, studio, builder >>

\* onReady: store the handle, clear the previous poll, start the interval.
\* The handler tests no mounted flag: a ready event delivered after the unmount
\* (the player was still loading when the card went away) starts an interval too.
OnReady ==
  /\ events < MaxEvents
  /\ events' = events + 1
  /\ playerRef' = Player
  /\ nextTimer' = nextTimer + 1
  /\ pollRef' = nextTimer + 1
  /\ timers' = SetInterval(ClearInterval(timers, pollRef), nextTimer + 1,
                  [completed |-> completed, user |-> user, videoId |-> videoId])
  /\ UNCHANGED << authUser, user, everUser, videoId, mountedCard, pct, completed,
                  loads, seed, writes, store, clock, api,
                  app, studio, builder >>

\* ---------------------------------------------- VideoCard: sampling tick
\* setCompleted(percent >= 80) on every tick
TickCompletedTracksPercent(crossing, p) == GE80(p)

\* a tick that shows 0 when it could not measure
TickPctZeroWhenUnmeasured(measured, p) == IF measured THEN Round(p) ELSE 0

\* setPct(Math.round(percent)) is reached only after the early returns
TickPct(measured, p) == IF measured THEN Round(p) ELSE pct

\* if (percent >= 80 && !completed) setCompleted(true): the state after the tick
TickCompleted(crossing, p) == IF crossing THEN TRUE ELSE completed

\* The interval callback of timer t reads <<cur, dur>> from the player.
\* State setters of an unmounted component do nothing.
Tick(t, cur, dur) ==
  /\ t \in DOMAIN timers
  /\ LET cl       == timers[t]
         measured == playerRef # NoPlayer /\ dur # 0
         p        == Percent(cur, dur)
         crossing == measured /\ GE80(p) /\ ~cl.completed
         saves    == crossing /\ cl.user # NoUser
         newP     == IF mountedCard THEN TickPct(measured, p) ELSE pct
         newC     == IF measured /\ mountedCard THEN TickCompleted(crossing, p)
                     ELSE completed
     IN  /\ saves => Len(writes) < MaxWrites
         /\ pct' = newP
         /\ completed' = newC
         /\ writes' = IF saves
                      THEN Append(writes,
                             SaveVideoProgress(cl.user, cl.videoId, p, clock, "tick"))
                      ELSE writes
         /\ clock' = IF saves THEN clock + 1 ELSE clock
         /\ Render(newP # pct \/ newC # completed, videoId, loads, seed)
  /\ UNCHANGED << authUser, everUser, mountedCard, playerRef, pollRef, timers,
                  nextTimer, store, events, api,
                  app, studio, builder >>

\* ---------------------------------------------- VideoCard: state change
\* an ended handler that saves the displayed pct instead of 100
OnStateChangeSavesPct(data) ==
  /\ mountedCard
  /\ LET ends  == data = YT_ENDED /\ ~completed
         saves == ends /\ user # NoUser
     IN  /\ saves => Len(writes) < MaxWrites
         /\ completed' = IF ends THEN TRUE ELSE completed
         /\ writes' = IF saves
                      THEN Append(writes,
                             SaveVideoProgress(user, videoId, Exactly(pct),
                                               clock, "ended"))
                      ELSE writes
         /\ clock' = IF saves THEN clock + 1 ELSE clock
         /\ Render(ends, videoId, loads, seed)
  /\ UNCHANGED << authUser, everUser, mountedCard, pct, playerRef, pollRef,
                  timers, nextTimer, store, events, api,
                  app, studio, builder >>

\* onStateChange(event): event.data === 0 is the ended signal
OnStateChange(data) ==
  /\ mountedCard
  /\ LET ends  == data = YT_ENDED /\ ~completed
         saves == ends /\ user # NoUser
     IN  /\ saves => Len(writes) < MaxWrites
         /\ completed' = IF ends THEN TRUE ELSE completed
         /\ writes' = IF saves
                      THEN Append(writes,
                             SaveVideoProgress(user, videoId, Exactly(EndedPct),
                                               clock, "ended"))
                      ELSE writes
         /\ clock' = IF saves THEN clock + 1 ELSE clock
         /\ Render(ends, videoId, loads, seed)
  /\ UNCHANGED << authUser, everUser, mountedCard, pct, playerRef, pollRef,
                  timers, nextTimer, store, events, api,
                  app, studio, builder >>

\* ------------------------------------------- VideoCard: props and unmount
\* the parent renders the instance with another videoId
SwitchVideo(v) ==
  /\ mountedCard
  /\ v # videoId
  /\ events < MaxEvents
  /\ events' = events + 1
  /\ Render(TRUE, v, loads, seed)
  /\ UNCHANGED << authUser, everUser, mountedCard, pct, completed, playerRef,
                  pollRef, timers, nextTimer, writes, store, clock, api,
                  app, studio, builder >>

\* a render caused from outside (App's onAuthStateChanged sets its user state)
Rerender ==
  /\ mountedCard
  /\ authUser # user
  /\ Render(TRUE, videoId, loads, seed)
  /\ UNCHANGED << authUser, everUser, mountedCard, pct, completed, playerRef,
                  pollRef, timers, nextTimer, writes, store, clock, events, api,
                  app, studio, builder >>

\* unmount: both effects' cleanups run
Unmount ==
  /\ mountedCard
  /\ mountedCard' = FALSE
  /\ timers' = ClearInterval(timers, pollRef)
  /\ loads' = Cleanup(loads)
  /\ UNCHANGED seed
  /\ UNCHANGED << authUser, user, everUser, videoId, pct, completed, playerRef,
                  pollRef, nextTimer, writes, store, clock, events, api,
                  app, studio, builder >>

\* --------------------------------------------------------- authentication
\* sign-in, sign-out or change of account: auth.currentUser changes
AuthChange(u) ==
  /\ mountedCard
  /\ u # authUser
  /\ events < MaxEvents
  /\ events' = events + 1
  /\ authUser' = u
  /\ everUser' = (everUser \/ u # NoUser)
  /\ UNCHANGED << user, videoId, mountedCard, pct, completed, playerRef, pollRef,
                  timers, nextTimer, loads, seed, writes, store, clock, api,
                  app, studio, builder >>

\* ------------------------------------------------------ store: setDoc ends
SetDocResolve(i) ==
  /\ i \in DOMAIN writes
  /\ writes[i].st = "pending"
  /\ writes' = [writes EXCEPT ![i].st = "ok"]
  /\ store' = SetDoc(store, writes[i])
  /\ UNCHANGED << authUser, user, everUser, videoId, mountedCard, pct, completed,
                  playerRef, pollRef, timers, nextTimer, loads, seed, clock, events, api,
                  app, studio, builder >>

SetDocReject(i) ==
  /\ i \in DOMAIN writes
  /\ writes[i].st = "pending"
  /\ writes' = [writes EXCEPT ![i].st = "failed"]
  /\ UNCHANGED << authUser, user, everUser, videoId, mountedCard, pct, completed,
                  playerRef, pollRef, timers, nextTimer, loads, seed, store, clock, events, api,
                  app, studio, builder >>

\* ------------------------------------------------------------------- Spec
TickStep == \E t \in DOMAIN timers, s \in Samples : Tick(t, s[1], s[2])

Next ==
  \/ \E i \in DOMAIN loads : LoadResolve(i)
  \/ \E i \in DOMAIN loads : LoadReject(i)
  \/ OnReady
  \/ TickStep
  \/ \E d \in PlayerStates : OnStateChange(d)
  \/ \E v \in Videos : SwitchVideo(v)
  \/ Rerender
  \/ Unmount
  \/ \E u \in Users \cup {NoUser} : AuthChange(u)
  \/ \E i \in DOMAIN writes : SetDocResolve(i)
  \/ \E i \in DOMAIN writes : SetDocReject(i)

Spec == Init /\ [][Next]_vars

\* ------------------------------------------ the store client called directly
\* percents a caller can pass to saveVideoProgress
ApiPercents == { Exactly(0), Exactly(50), Percent(397, 500), Percent(159, 200),
                 Exactly(80), Exactly(100) }

\* saveVideoProgress without the `if (!uid) throw`
ApiSaveNoUidCheck(uid, vid, p) ==
  /\ Len(writes) < MaxWrites
  /\ writes' = Append(writes, SaveVideoProgress(uid, vid, p, clock, "api"))
  /\ clock' = clock + 1
  /\ api' = [NoCall EXCEPT !.op = "issued"]
  /\ UNCHANGED << authUser, user, everUser, videoId, mountedCard, pct, completed,
                  playerRef, pollRef, timers, nextTimer, loads, seed, store,
                  events,
                  app, studio, builder >>

\* saveVideoProgress(uid, videoId, pct) called by any client; a falsy uid throws
\* before setDoc is reached
ApiSave(uid, vid, p) ==
  /\ IF uid = NoUser
     THEN /\ api' = [NoCall EXCEPT !.op = "threw"]
          /\ UNCHANGED << writes, clock >>
     ELSE /\ Len(writes) < MaxWrites
          /\ writes' = Append(writes, SaveVideoProgress(uid, vid, p, clock, "api"))
          /\ clock' = clock + 1
          /\ api' = [NoCall EXCEPT !.op = "issued"]
  /\ UNCHANGED << authUser, user, everUser, videoId, mountedCard, pct, completed,
                  playerRef, pollRef, timers, nextTimer, loads, seed, store,
                  events,
                  app, studio, builder >>

\* no VideoCard is mounted; the collection is empty
StoreInit ==
  /\ authUser = NoUser
  /\ user = NoUser
  /\ everUser = FALSE
  /\ videoId = "A"
  /\ mountedCard = FALSE
  /\ pct = 0
  /\ completed = FALSE
  /\ playerRef = NoPlayer
  /\ pollRef = 0
  /\ timers = NoTimers
  /\ nextTimer = 0
  /\ loads = << >>
  /\ seed = "none"
  /\ writes = << >>
  /\ store = EmptyStore
  /\ clock = 1
  /\ events = 0
  /\ api = NoCall
  /\ app = NoApp
  /\ studio = NoStudio
  /\ builder = NoBuilder

StoreNext ==
  \/ \E u \in Users \cup {NoUser}, v \in Videos, p \in ApiPercents : ApiSave(u, v, p)
  \/ \E i \in DOMAIN writes : SetDocResolve(i)
  \/ \E i \in DOMAIN writes : SetDocReject(i)

StoreSpec == StoreInit /\ [][StoreNext]_vars

\* ----------------------------------------------- getUserProgress on any store
\* documents a user can have: none, one without the videoProgress field, one
\* whose videoProgress is empty, and ones with finished and unfinished records
HalfRec == [present |-> TRUE, completed |-> FALSE, pct |-> 50, updatedAt |-> 0]
DocOf(has, a, b) ==
  [exists |-> TRUE, hasVP |-> has,
   vp |-> [v \in Videos |-> IF v = "A" THEN a ELSE b]]
SampleDocs == { NoDoc, DocOf(FALSE, NoRec, NoRec), DocOf(TRUE, NoRec, NoRec),
                DocOf(TRUE, DoneRec, NoRec), DocOf(TRUE, NoRec, HalfRec),
                DocOf(TRUE, DoneRec, HalfRec) }

\* getUserProgress(uid) called by any client: the promise resolves with the map
ApiGet(uid) ==
  /\ api' = [op |-> "got", uid |-> uid, map |-> GetUserProgress(store, uid)]
  /\ UNCHANGED << authUser, user, everUser, videoId, mountedCard, pct, completed,
                  playerRef, pollRef, timers, nextTimer, loads, seed, writes,
                  store, clock, events,
                  app, studio, builder >>

GetInit ==
  /\ authUser = NoUser
  /\ user = NoUser
  /\ everUser = FALSE
  /\ videoId = "A"
  /\ mountedCard = FALSE
  /\ pct = 0
  /\ completed = FALSE
  /\ playerRef = NoPlayer
  /\ pollRef = 0
  /\ timers = NoTimers
  /\ nextTimer = 0
  /\ loads = << >>
  /\ seed = "none"
  /\ writes = << >>
  /\ store \in [Users -> SampleDocs]
  /\ clock = 1
  /\ events = 0
  /\ api = NoCall
  /\ app = NoApp
  /\ studio = NoStudio
  /\ builder = NoBuilder

GetNext == \E u \in Users \cup {NoUser} : ApiGet(u)

GetSpec == GetInit /\ [][GetNext]_vars

\* ------------------------------------------- one mount, one sampling interval
\* readings of a 200 s video: 5, 25, 50, 79.5, 80, 85 and 100 percent, and a
\* player that reports no duration yet
TickSamples == { <<10, 200>>, <<50, 200>>, <<100, 200>>, <<159, 200>>,
                 <<160, 200>>, <<170, 200>>, <<200, 200>>, <<50, 0>> }

\* the card has mounted and its player has become ready once
TickInit ==
  /\ authUser \in {NoUser, "u1"}
  /\ user = authUser
  /\ everUser = (authUser # NoUser)
  /\ videoId \in Videos
  /\ mountedCard = TRUE
  /\ pct = 0
  /\ completed = FALSE
  /\ playerRef = Player
  /\ pollRef = 1
  /\ timers = SetInterval(NoTimers, 1,
                 [completed |-> FALSE, user |-> authUser, videoId |-> videoId])
  /\ nextTimer = 1
  /\ loads = IF authUser # NoUser THEN << NewLoad(authUser, videoId) >> ELSE << >>
  /\ seed = IF authUser # NoUser THEN "pending" ELSE "none"
  /\ writes = << >>
  /\ store = PriorStore
  /\ clock = 1
  /\ events = 1
  /\ api = NoCall
  /\ app = NoApp
  /\ studio = NoStudio
  /\ builder = NoBuilder

TickSampled == \E t \in DOMAIN timers, s \in TickSamples : Tick(t, s[1], s[2])

TickNext ==
  \/ TickSampled
  \/ \E d \in PlayerStates : OnStateChange(d)
  \/ \E i \in DOMAIN loads : LoadResolve(i)
  \/ \E i \in DOMAIN loads : LoadReject(i)
  \/ \E i \in DOMAIN writes : SetDocResolve(i)
  \/ \E i \in DOMAIN writes : SetDocReject(i)

TickSpec == TickInit /\ [][TickNext]_vars

\* ------------------------------------- a caller that awaits each of its calls
\* percents of the awaited calls: 50, 79.5 and 100
UpsertPercents == { Exactly(50), Percent(159, 200), Exactly(100) }

NoPending == \A i \in DOMAIN writes : writes[i].st # "pending"

\* await saveVideoProgress(uid, videoId, pct): issued once the earlier call ended
AwaitedSave(uid, vid, p) == NoPending /\ ApiSave(uid, vid, p)

\* await getUserProgress(uid), after the earlier call has ended
AwaitedGet(uid) == NoPending /\ ApiGet(uid)

\* no VideoCard is mounted; u1 has no document, or the document of PriorStore
UpsertInit ==
  /\ authUser = NoUser
  /\ user = NoUser
  /\ everUser = FALSE
  /\ videoId = "A"
  /\ mountedCard = FALSE
  /\ pct = 0
  /\ completed = FALSE
  /\ playerRef = NoPlayer
  /\ pollRef = 0
  /\ timers = NoTimers
  /\ nextTimer = 0
  /\ loads = << >>
  /\ seed = "none"
  /\ writes = << >>
  /\ store \in {EmptyStore, PriorStore}
  /\ clock = 1
  /\ events = 0
  /\ api = NoCall
  /\ app = NoApp
  /\ studio = NoStudio
  /\ builder = NoBuilder

UpsertNext ==
  \/ \E u \in Users, v \in Videos, p \in UpsertPercents : AwaitedSave(u, v, p)
  \/ \E u \in Users : AwaitedGet(u)
  \/ \E i \in DOMAIN writes : SetDocResolve(i)
  \/ \E i \in DOMAIN writes : SetDocReject(i)

UpsertSpec == UpsertInit /\ [][UpsertNext]_vars

\* --------------------------------------------------- App: protected routes
\* no VideoCard is mounted and the store is not used
CardIdle ==
  /\ authUser = NoUser
  /\ user = NoUser
  /\ everUser = FALSE
  /\ videoId = "A"
  /\ mountedCard = FALSE
  /\ pct = 0
  /\ completed = FALSE
  /\ playerRef = NoPlayer
  /\ pollRef = 0
  /\ timers = NoTimers
  /\ nextTimer = 0
  /\ loads = << >>
  /\ seed = "none"
  /\ writes = << >>
  /\ store = EmptyStore
  /\ clock = 1
  /\ events = 0
  /\ api = NoCall

\* the nested routes under /app
NestedRoutes == { "dashboard", "learning-hub", "dataset-manager", "eda-studio",
                  "model-builder", "prediction-studio", "practice-lab",
                  "career-roadmaps", "reports", "ai-chatbot" }

\* locations, as sequences of path segments: /, /login, /signup, /nowhere,
\* /app, /app/<nested route>, /app/nowhere
Paths ==
  { << >>, <<"login">>, <<"signup">>, <<"nowhere">>, <<"app">>,
    <<"app", "nowhere">> } \cup { <<"app", r>> : r \in NestedRoutes }

UnderApp(path) == path # << >> /\ path[1] = "app"

Navigate(to)  == [kind |-> "navigate", page |-> "", to |-> to]
Element(name) == [kind |-> "page", page |-> name, to |-> << >>]

\* a ProtectedRoute that renders its children for everybody
ProtectedRouteOpen(u, children) == children

\* ProtectedRoute: if (!user) return <Navigate to="/login" replace />
ProtectedRoute(u, children) ==
  IF u = NoUser THEN Navigate(<<"login">>) ELSE children

\* the nested <Routes> under /app: index, the ten pages, "*"
NestedRoute(path) ==
  IF Len(path) = 1 THEN Element("dashboard")
  ELSE IF Len(path) = 2 /\ path[2] \in NestedRoutes THEN Element(path[2])
  ELSE Navigate(<<"app">>)

\* what App renders for a location
AppRoutes(u, path) ==
  IF path = <<"login">> THEN Element("Login")
  ELSE IF path = <<"signup">> THEN Element("Signup")
  ELSE IF UnderApp(path) THEN ProtectedRoute(u, NestedRoute(path))
  ELSE IF path = << >>
       THEN Navigate(IF u # NoUser THEN <<"app">> ELSE <<"login">>)
  ELSE Navigate(<< >>)

AppLocation == app.hist[Len(app.hist)]
AppView == AppRoutes(app.user, AppLocation)

\* onAuthStateChanged callback: setUser(u)
AppAuthCallback(u) ==
  /\ u # app.user
  /\ app' = [app EXCEPT !.user = u]
  /\ UNCHANGED << cardVars, studio, builder >>

\* a link, navigate(to) or an address typed by the user: a new history entry
AppPush(path) ==
  /\ Len(app.hist) < MaxHistory
  /\ path # AppLocation
  /\ app' = [app EXCEPT !.hist = Append(@, path)]
  /\ UNCHANGED << cardVars, studio, builder >>

\* the back button
AppBack ==
  /\ Len(app.hist) > 1
  /\ app' = [app EXCEPT !.hist = SubSeq(@, 1, Len(@) - 1)]
  /\ UNCHANGED << cardVars, studio, builder >>

\* a rendered <Navigate replace /> replaces the current location
AppRedirect ==
  /\ AppView.kind = "navigate"
  /\ app' = [app EXCEPT !.hist = [@ EXCEPT ![Len(@)] = AppView.to]]
  /\ UNCHANGED << cardVars, studio, builder >>

\* the App is opened at any address; no auth-state callback has run
AppInit ==
  /\ CardIdle
  /\ \E path \in Paths : app = [user |-> NoUser, hist |-> << path >>]
  /\ studio = NoStudio
  /\ builder = NoBuilder

AppNext ==
  \/ \E u \in Users \cup {NoUser} : AppAuthCallback(u)
  \/ \E path \in Paths : AppPush(path)
  \/ AppBack
  \/ AppRedirect

AppSpec == AppInit /\ [][AppNext]_vars

\* ------------------------------------------- PredictionStudio: feature fetch
Models == {"m1", "m2", "m3"}
NoModel == ""
\* res.data.features of GET /model/features/<id>
FeaturesOf(m) ==
  IF m = "m1" THEN {"age", "income"}
  ELSE IF m = "m2" THEN {"sqft"}
  ELSE {"age", "sqft", "rooms"}

\* fetchModels: GET /model/saved answers; an error alerts and leaves the list
ModelsSettle(ok) ==
  /\ studio.loadingModels
  /\ studio' = [studio EXCEPT !.loadingModels = FALSE,
                              !.modelList = IF ok THEN Models ELSE @]
  /\ UNCHANGED << cardVars, app, builder >>

\* the select's onChange, the render and the features effect of that render;
\* the select is rendered once the model list has been fetched
SelectModel(m) ==
  /\ ~studio.loadingModels
  /\ m \in studio.modelList \cup {NoModel}
  /\ m # studio.selected
  /\ studio.selections < MaxEvents
  /\ studio' =
       IF m = NoModel
       THEN [studio EXCEPT !.selected = m, !.selections = @ + 1,
                           !.featureNames = {}, !.inputKeys = {}]
       ELSE [studio EXCEPT !.selected = m, !.selections = @ + 1,
                           !.loadingFeatures = TRUE, !.reqs = Append(@, m)]
  /\ UNCHANGED << cardVars, app, builder >>

\* fetchFeatures: the response of request i arrives
FeaturesResolve(i) ==
  /\ i \in DOMAIN studio.reqs
  /\ studio' = [studio EXCEPT !.featureNames = FeaturesOf(studio.reqs[i]),
                              !.inputKeys = FeaturesOf(studio.reqs[i]),
                              !.loadingFeatures = FALSE,
                              !.reqs = RemoveAt(@, i)]
  /\ UNCHANGED << cardVars, app, builder >>

\* fetchFeatures: request i fails; the catch alerts and empties the form
FeaturesReject(i) ==
  /\ i \in DOMAIN studio.reqs
  /\ studio' = [studio EXCEPT !.featureNames = {}, !.inputKeys = {},
                              !.loadingFeatures = FALSE,
                              !.reqs = RemoveAt(@, i)]
  /\ UNCHANGED << cardVars, app, builder >>

StudioInit ==
  /\ CardIdle
  /\ app = NoApp
  /\ studio = [NoStudio EXCEPT !.loadingModels = TRUE]
  /\ builder = NoBuilder

StudioNext ==
  \/ \E ok \in BOOLEAN : ModelsSettle(ok)
  \/ \E m \in Models \cup {NoModel} : SelectModel(m)
  \/ \E i \in DOMAIN studio.reqs : FeaturesResolve(i)
  \/ \E i \in DOMAIN studio.reqs : FeaturesReject(i)

StudioSpec == StudioInit /\ [][StudioNext]_vars

\* --------------------------------------------- ModelBuilder: train and save
\* task, dataset and algorithm are chosen, or the dataset is cleared
SetForm(b) ==
  /\ b # builder.form
  /\ builder' = [builder EXCEPT !.form = b]
  /\ UNCHANGED << cardVars, app, studio >>

\* handleTrainModel up to its first await (the button is disabled while
\* loadingTrain); a signed-in user's token is awaited before the request
TrainClick ==
  /\ ~builder.loadingTrain
  /\ builder.clicks < MaxEvents
  /\ builder' =
       IF ~builder.form
       THEN [builder EXCEPT !.clicks = @ + 1]
       ELSE [builder EXCEPT !.clicks = @ + 1,
                            !.loadingTrain = TRUE,
                            !.trainMetrics = 0,
                            !.sessionId = 0,
                            !.attempts = @ + 1,
                            !.train = IF builder.signedIn THEN "token" ELSE "posted"]
  /\ UNCHANGED << cardVars, app, studio >>

\* getIdToken of the training ends: the request is posted, or catch and finally
TrainToken(ok) ==
  /\ builder.train = "token"
  /\ builder' = IF ok THEN [builder EXCEPT !.train = "posted"]
                ELSE [builder EXCEPT !.train = "none", !.loadingTrain = FALSE]
  /\ UNCHANGED << cardVars, app, studio >>

\* POST /model/train settles: with a session id, without one, or failing
TrainSettle(outcome) ==
  /\ builder.train = "posted"
  /\ builder' =
       IF outcome = "id"
       THEN [builder EXCEPT !.train = "none", !.loadingTrain = FALSE,
                            !.trainMetrics = builder.attempts,
                            !.sessionId = builder.attempts]
       ELSE IF outcome = "noid"
       THEN [builder EXCEPT !.train = "none", !.loadingTrain = FALSE,
                            !.trainMetrics = builder.attempts,
                            !.sessionId = 0]
       ELSE [builder EXCEPT !.train = "none", !.loadingTrain = FALSE]
  /\ UNCHANGED << cardVars, app, studio >>

\* handleSaveModel up to its first await; the button is rendered with the
\* metrics and disabled while savingModel or without sessionId
SaveClick ==
  /\ builder.trainMetrics # 0
  /\ ~builder.savingModel
  /\ builder.sessionId # 0
  /\ builder.clicks < MaxEvents
  /\ builder' =
       IF ~builder.form
       THEN [builder EXCEPT !.clicks = @ + 1]
       ELSE [builder EXCEPT !.clicks = @ + 1,
                            !.savingModel = TRUE,
                            !.saveSid = builder.sessionId,
                            !.save = IF builder.signedIn THEN "token" ELSE "posted"]
  /\ UNCHANGED << cardVars, app, studio >>

\* getIdToken of the save ends: POST /model/save with the session id the
\* handler read, or catch and finally
SaveToken(ok) ==
  /\ builder.save = "token"
  /\ builder' = IF ok THEN [builder EXCEPT !.save = "posted"]
                ELSE [builder EXCEPT !.save = "none", !.savingModel = FALSE]
  /\ UNCHANGED << cardVars, app, studio >>

\* POST /model/save settles, either way: alert, finally
SaveSettle ==
  /\ builder.save = "posted"
  /\ builder' = [builder EXCEPT !.save = "none", !.savingModel = FALSE]
  /\ UNCHANGED << cardVars, app, studio >>

BuilderInit ==
  /\ CardIdle
  /\ app = NoApp
  /\ studio = NoStudio
  /\ \E si \in BOOLEAN : builder = [NoBuilder EXCEPT !.signedIn = si]

BuilderNext ==
  \/ \E b \in BOOLEAN : SetForm(b)
  \/ TrainClick
  \/ \E ok \in BOOLEAN : TrainToken(ok)
  \/ \E o \in {"id", "noid", "fail"} : TrainSettle(o)
  \/ SaveClick
  \/ \E ok \in BOOLEAN : SaveToken(ok)
  \/ SaveSettle

BuilderSpec == BuilderInit /\ [][BuilderNext]_vars

\* ================================================================ claims
TickWrites == { i \in DOMAIN writes : writes[i].by = "tick" }
LastWrite(ws) == ws[Len(ws)]

\* C1: one mount, an authenticated user, no prior stored record, sampling ticks
\* only: exactly one saveVideoProgress call is issued, at the first tick with
\* percent >= 80, however often later ticks observe percent >= 80.
C1_ExactlyOneTickWrite ==
  ( /\ events = 1 /\ nextTimer = 1
    /\ user # NoUser
    /\ ~PriorStore[user].vp[videoId].present
    /\ \A i \in DOMAIN writes : writes[i].by = "tick" )
  => Len(writes) <= 1

\* C2: once completed is true, no sampling tick sets it back to false, whatever
\* percent the tick observes.
C2_StickyCompleted == [][ (TickStep /\ completed) => completed' ]_vars

\* a tick observed less than 80 percent after a tick had completed the item
C2_Witness ==
  completed /\ pct < Threshold /\ TickWrites # {} /\ mountedCard

\* C3: at most one sampling interval is live in every reachable state, and it is
\* the one pollRef holds, under any sequence of player-ready events, switches
\* and unmount.
C3_AtMostOneTimer ==
  /\ Cardinality(DOMAIN timers) <= 1
  /\ DOMAIN timers \subseteq {pollRef}

\* a second player-ready event has replaced the first interval
C3_Witness == nextTimer >= 2 /\ Cardinality(DOMAIN timers) = 1

\* C4: after a switch of videoId, every write the sampling timer issues names
\* the latest videoId.
C4_WritesNameLatestVideo ==
  [][ (TickStep /\ Len(writes') > Len(writes))
        => LastWrite(writes').videoId = videoId ]_vars

\* C5: a rejected seeding read changes nothing (the defaults pct = 0, completed =
\* false stay), later ticks still set pct, and the first tick with percent >= 80
\* sets completed and issues the write (for a mounted card and a user signed in
\* when the player became ready).
C5_FailOpenSeeding ==
  /\ []( (seed = "rejected" /\ events = 0 /\ writes = << >>)
           => (pct = 0 /\ ~completed) )
  /\ [][ (\E i \in DOMAIN loads : LoadReject(i))
           => (pct' = pct /\ completed' = completed /\ timers' = timers
               /\ writes' = writes) ]_vars
  /\ [][ \A t \in DOMAIN timers, s \in Samples :
           (seed = "rejected" /\ mountedCard /\ s[2] # 0 /\ Tick(t, s[1], s[2]))
           => /\ pct' = Round(Percent(s[1], s[2]))
              /\ (GE80(Percent(s[1], s[2])) /\ ~completed /\ timers[t].user # NoUser)
                  => /\ completed'
                     /\ Len(writes') = Len(writes) + 1
                     /\ LastWrite(writes').uid = timers[t].user
                     /\ LastWrite(writes').by = "tick"
                     /\ LastWrite(writes').completed ]_vars

\* the seeding read was rejected and a tick has completed the item and written
C5_Witness ==
  /\ seed = "rejected" /\ completed /\ pct >= Threshold
  /\ Len(writes) = 1 /\ writes[1].by = "tick" /\ events = 1

\* C6: a write for (U, B) leaves every other record of U and every other user's
\* document as they were, also when writes to different content identifiers of
\* one user are in flight together and end in any order.
Commits(i) == writes[i].st = "pending" /\ writes'[i].st = "ok"
C6_MergeIsolation ==
  [][ /\ \A u \in Users :
           (store'[u] # store[u])
             => \E i \in DOMAIN writes : Commits(i) /\ writes[i].uid = u
      /\ \A u \in Users, v \in Videos :
           (store'[u].vp[v] # store[u].vp[v])
             => \E i \in DOMAIN writes :
                  Commits(i) /\ writes[i].uid = u /\ writes[i].videoId = v ]_vars

\* two writes of one user, to A and then to B, have both been stored
C6_Witness ==
  \E u \in Users :
    /\ store[u].vp["A"].present /\ store[u].vp["B"].present
    /\ store[u].vp["A"].updatedAt < store[u].vp["B"].updatedAt
    /\ writes[1].videoId = "A" /\ writes[2].videoId = "B"

\* C7: with no authenticated user during the mount, a tick with percent >= 80
\* sets completed of the mounted card, and the VideoCard calls the Progress Store neither for the
\* seeding read nor for a write.
C7_NoUserNoStoreCalls ==
  /\ []( ~everUser => (writes = << >> /\ loads = << >> /\ seed = "none") )
  /\ [][ \A t \in DOMAIN timers, s \in Samples :
           (~everUser /\ mountedCard /\ s[2] # 0 /\ GE80(Percent(s[1], s[2]))
            /\ Tick(t, s[1], s[2]))
           => completed' ]_vars

\* no user ever, and a tick at 80 percent or more has run
C7_Witness ==
  ~everUser /\ completed /\ pct >= Threshold /\ timers # NoTimers

\* C8: the ended signal (state 0) with completed false sets completed and, for an
\* authenticated user, issues exactly one saveVideoProgress call with percent
\* 100, whether or not a tick has fired; without a user it issues none.
\* (user = authUser: the latest render has read the current auth state.)
C8_EndedCompletes ==
  [][ (OnStateChange(YT_ENDED) /\ ~completed /\ user = authUser)
        => /\ completed'
           /\ IF user # NoUser
              THEN /\ Len(writes') = Len(writes) + 1
                   /\ SubSeq(writes', 1, Len(writes)) = writes
                   /\ LastWrite(writes').uid = user
                   /\ LastWrite(writes').videoId = videoId
                   /\ LastWrite(writes').num = EndedPct * LastWrite(writes').den
                   /\ LastWrite(writes').pct = EndedPct
                   /\ LastWrite(writes').completed
              ELSE writes' = writes ]_vars

\* the ended signal completed the item before any interval was started
C8_Witness ==
  /\ completed /\ nextTimer = 0 /\ pct = 0
  /\ Len(writes) = 1 /\ writes[1].by = "ended" /\ writes[1].pct = EndedPct

\* C9: once a mount has completed through one trigger, the other trigger issues
\* no write: no tick write follows an ended write and no ended write follows a
\* tick write.
C9_OtherTriggerSilent ==
  (events = 1 /\ nextTimer = 1)
  => \A i, j \in DOMAIN writes :
       i < j => ~( writes[i].by # writes[j].by )

\* C10: after the completion write has failed, completed stays true and no
\* further write is attempted during the mount.
C10_NoRetryAfterFailure ==
  [][ (events = 1 /\ nextTimer = 1 /\ \E i \in DOMAIN writes : writes[i].st = "failed")
        => (Len(writes') = Len(writes) /\ (completed => completed')) ]_vars

\* C11: the completion threshold is 80 inclusive on the rounded sample: a tick
\* whose round(currentPosition / duration * 100) is >= 80 (a raw 79.5 percent
\* included) while completed is false performs the completion transition.
C11_RoundedThreshold ==
  [][ \A t \in DOMAIN timers, s \in TickSamples :
        ( /\ s[2] # 0 /\ ~completed
          /\ (200 * s[1] + s[2]) \div (2 * s[2]) >= Threshold
          /\ Tick(t, s[1], s[2]) )
        => completed' ]_vars

\* C11 (amended): the threshold is 80 inclusive on the unrounded percent: a tick
\* with completed false performs the completion transition exactly when
\* currentPosition / duration * 100 >= 80; a tick at 79.5 percent shows pct 80
\* and does not complete.
C11_RawThreshold ==
  [][ \A t \in DOMAIN timers, s \in TickSamples :
        (s[2] # 0 /\ ~completed /\ Tick(t, s[1], s[2]))
        => (completed' <=> 100 * s[1] >= Threshold * s[2]) ]_vars

\* a tick at 79.5 percent has set pct to 80 and left the item uncompleted
C11_Witness ==
  pct = Threshold /\ ~completed /\ mountedCard /\ timers # NoTimers

\* C12: the write issued at a tick-triggered completion transition stores, under
\* the mounted content identifier, completed = true and the rounded percent of
\* that tick.
C12_TickWriteRecord ==
  [][ \A t \in DOMAIN timers, s \in Samples :
        ( /\ s[2] # 0 /\ ~completed /\ Tick(t, s[1], s[2])
          /\ Len(writes') > Len(writes) )
        => /\ LastWrite(writes').videoId = videoId
           /\ LastWrite(writes').completed
           /\ LastWrite(writes').pct = Round(Percent(s[1], s[2])) ]_vars

\* C13: every tick with an attached player and a positive duration sets pct to
\* the rounded percent, before and after completion; a tick after completion
\* that observes a lower position lowers pct, keeps completed and issues no
\* write.
C13_TickSetsPct ==
  [][ \A t \in DOMAIN timers, s \in TickSamples :
        (s[2] # 0 /\ Tick(t, s[1], s[2]))
        => /\ pct' = Round(Percent(s[1], s[2]))
           /\ (completed /\ Round(Percent(s[1], s[2])) < pct)
                => (completed' /\ writes' = writes) ]_vars

\* C14: the write of a tick's completion transition is addressed to the user
\* authenticated at that time: after a sign-out or a change of account that the
\* card has rendered, the write is skipped or names the new user, never the
\* earlier one.
C14_WriteToCurrentUser ==
  [][ (TickStep /\ ~completed /\ user = authUser /\ Len(writes') > Len(writes))
        => LastWrite(writes').uid = authUser ]_vars

\* C15: saveVideoProgress with an absent or empty uid fails with an error and
\* performs no write: no setDoc is reached and the store is unchanged.
C15_NoUidNoWrite ==
  /\ [][ \A v \in Videos, p \in ApiPercents :
           ApiSave(NoUser, v, p)
           => (api'.op = "threw" /\ writes' = writes /\ store' = store) ]_vars
  /\ [](\A i \in DOMAIN writes : writes[i].uid # NoUser)

\* a call without uid has thrown after earlier calls had stored records
C15_Witness ==
  api.op = "threw" /\ (\E u \in Users : store[u].exists) /\ writes # << >>

\* C16: saveVideoProgress(uid, videoId, percent) stores for videoId a record
\* with completed = (percent >= 80) on the percent passed and pct = the nearest
\* integer of percent (halves up).
C16_StoredRecord ==
  [][ \A i \in DOMAIN writes :
        Commits(i)
        => LET w == writes[i]
               r == store'[w.uid].vp[w.videoId]
               d == 2 * (r.pct * w.den - w.num)
           IN  /\ r.present
               /\ r.completed = (w.num >= Threshold * w.den)
               /\ (0 - w.den) < d /\ d <= w.den ]_vars

\* a call with 79.5 percent has stored pct 80 with completed false
C16_Witness ==
  \E u \in Users, v \in Videos :
    /\ store[u].vp[v].present /\ store[u].vp[v].pct = Threshold
    /\ ~store[u].vp[v].completed

\* C17: getUserProgress(uid) returns the empty mapping when the user has no
\* document or the document has no videoProgress, and otherwise exactly the
\* stored mapping.
C17_GetReturnsStoredMap ==
  api.op = "got"
  => api.map = IF /\ api.uid \in Users
                  /\ store[api.uid].exists
                  /\ store[api.uid].hasVP
               THEN store[api.uid].vp
               ELSE [v \in Videos |-> NoRec]

\* the mapping returned holds a finished and an unfinished record
C17_Witness ==
  /\ api.op = "got"
  /\ api.map["A"].present /\ api.map["A"].completed
  /\ api.map["B"].present /\ ~api.map["B"].completed

\* C18: every stored record with completed = true has pct >= 80, after any
\* sequence of saveVideoProgress calls.
C18_CompletedHasThreshold ==
  \A u \in Users, v \in Videos :
    store[u].vp[v].completed => store[u].vp[v].pct >= Threshold

\* records of both kinds are stored: completed at exactly 80, and not completed
C18_Witness ==
  \E u \in Users :
    /\ store[u].vp["A"].completed /\ store[u].vp["A"].pct = Threshold
    /\ store[u].vp["B"].present /\ ~store[u].vp["B"].completed

\* C19: stored completion is one-way: a later write with a lower percent
\* overwrites pct without clearing completed.
C19_StoredCompletionOneWay ==
  [][ \A u \in Users, v \in Videos :
        store[u].vp[v].completed => store'[u].vp[v].completed ]_vars

\* C20: after the unmount no sampling interval of the instance is live (so no
\* tick fires), whatever the order of the player-ready event and the unmount.
C20_NoTimerAfterUnmount == ~mountedCard => timers = NoTimers

\* C21: no Progress Store failure escapes the VideoCard: a rejected seeding
\* read and a rejected write of either trigger are caught inside the component
\* (no unhandled rejection).
C21_NoFailureEscapes ==
  \A i \in DOMAIN writes :
    (writes[i].by \in {"tick", "ended"} /\ writes[i].st = "failed")
      => CatchesRejection(writes[i].by)

\* C22: after a seeding for a (user, content) pair without a stored record the
\* local state is pct = 0 and completed = false, also on the re-seed after a
\* switch away from content whose progress was shown (no interval has been
\* started, so the progress shown was seeded).
C22_SeedResetsState ==
  [][ \A i \in DOMAIN loads :
        ( /\ LoadResolve(i) /\ loads[i].mounted
          /\ ~GetUserProgress(store, loads[i].uid)[loads[i].videoId].present
          /\ nextTimer = 0 /\ pct > 0 )
        => (pct' = 0 /\ ~completed') ]_vars

\* C23: when the store holds completed = true for the mounted pair, no tick
\* after the seeding read has resolved issues a write, whether the player
\* became ready before or after the seed resolved (one ready event, no switch,
\* no auth change).
C23_NoWriteAfterSeededCompletion ==
  [][ ( /\ TickStep /\ seed = "resolved" /\ mountedCard
        /\ events = 1 /\ nextTimer = 1 /\ user # NoUser
        /\ PriorStore[user].vp[videoId].completed )
      => writes' = writes ]_vars

\* C24: a seeding read that resolves or rejects after the unmount, or after the
\* videoId was switched to another item, changes neither pct nor completed.
C24_LateSeedDiscarded ==
  [][ \A i \in DOMAIN loads :
        ( /\ LoadResolve(i) \/ LoadReject(i)
          /\ ~mountedCard \/ loads[i].videoId # videoId )
        => (pct' = pct /\ completed' = completed) ]_vars

\* the card was unmounted before its seeding read ended; the read of a
\* completed record has ended and has not seeded the state
C24_Witness ==
  /\ ~mountedCard /\ loads = << >> /\ seed = "pending"
  /\ user = "u1" /\ videoId = "A" /\ ~completed /\ pct = 0

\* C25: a tick that finds no player handle, or no positive duration, leaves pct,
\* completed and the store (and the calls to it) unchanged.
C25_UnmeasuredTickNoEffect ==
  [][ \A t \in DOMAIN timers, s \in Samples :
        (Tick(t, s[1], s[2]) /\ (playerRef = NoPlayer \/ s[2] = 0))
        => /\ pct' = pct /\ completed' = completed
           /\ writes' = writes /\ store' = store ]_vars

\* an interval is live on a mounted card that shows 5 percent, not completed
C25_Witness ==
  mountedCard /\ timers # NoTimers /\ pct = 5 /\ ~completed /\ writes = << >>

\* C26: saveVideoProgress is an upsert with a read-back round trip: it creates
\* the document when there is none, changes only its own key otherwise, a
\* following getUserProgress returns the record just written for that key, and
\* a repeated call leaves completed and pct of the record unchanged.
C26_UpsertRoundTrip ==
  /\ [][ \A i \in DOMAIN writes :
           Commits(i)
           => LET w == writes[i]
              IN  /\ store'[w.uid].exists
                  /\ \A v \in Videos \ {w.videoId} :
                       store'[w.uid].vp[v] = store[w.uid].vp[v]
                  /\ ( /\ store[w.uid].vp[w.videoId].present
                       /\ store[w.uid].vp[w.videoId].pct = w.pct
                       /\ store[w.uid].vp[w.videoId].completed = w.completed )
                     => /\ store'[w.uid].vp[w.videoId].pct = w.pct
                        /\ store'[w.uid].vp[w.videoId].completed = w.completed ]_vars
  /\ []( ( /\ api.op = "got" /\ writes # << >>
           /\ LastWrite(writes).st = "ok"
           /\ api.uid = LastWrite(writes).uid )
         => api.map[LastWrite(writes).videoId] =
              [present |-> TRUE,
               completed |-> (LastWrite(writes).num >= Threshold * LastWrite(writes).den),
               pct |-> LastWrite(writes).pct,
               updatedAt |-> LastWrite(writes).updatedAt] )

\* u2 had no document; two equal calls were stored and the read returned the
\* record of the second
C26_Witness ==
  /\ api.op = "got" /\ api.uid = "u2" /\ Len(writes) = 2
  /\ writes[1].st = "ok" /\ writes[2].st = "ok"
  /\ writes[1].uid = "u2" /\ writes[2].uid = "u2"
  /\ writes[1].videoId = writes[2].videoId /\ writes[1].pct = writes[2].pct
  /\ api.map[writes[2].videoId].updatedAt = writes[2].updatedAt

\* C27: every saveVideoProgress call of a VideoCard carries a percent >= 80, so
\* every record it writes has completed = true and pct in 80..100 (position
\* within the duration).
C27_CardWritesAtLeast80 ==
  \A i \in DOMAIN writes :
    writes[i].by \in {"tick", "ended"}
      => /\ writes[i].num >= Threshold * writes[i].den
         /\ writes[i].completed
         /\ writes[i].pct >= Threshold /\ writes[i].pct <= EndedPct

\* the ended signal wrote 100 and a tick at exactly 80 percent wrote 80
C27_Witness ==
  /\ Len(writes) = 2
  /\ writes[1].by = "ended" /\ writes[1].pct = EndedPct
  /\ writes[2].by = "tick" /\ writes[2].pct = Threshold

\* C28: while the App's user is null (the initial state included) every route
\* under /app renders the redirect to /login and no application page; a page
\* under /app is rendered only while user is non-null.
C28_ProtectedRoutes ==
  /\ app.user = NoUser
       => \A path \in Paths :
            UnderApp(path) => AppRoutes(app.user, path) = Navigate(<<"login">>)
  /\ (UnderApp(AppLocation) /\ AppView.kind = "page") => app.user # NoUser

\* a second location under /app is open and the user is null: the redirect is
\* what is rendered
C28_Witness ==
  /\ app.user = NoUser /\ Len(app.hist) = 2
  /\ app.hist[1] = <<"app", "reports">>
  /\ AppLocation = <<"app", "model-builder">>

\* C29: in PredictionStudio, once all feature requests have settled, the
\* featureNames shown and the keys of inputValues are those of the selected
\* model (none when its request failed), in every order of the responses of
\* two successive selections; with no model selected both are empty.
C29_FeaturesOfSelectedModel ==
  studio.reqs = << >>
    => /\ studio.inputKeys = studio.featureNames
       /\ IF studio.selected = NoModel
          THEN studio.featureNames = {}
          ELSE studio.featureNames \in {FeaturesOf(studio.selected), {}}

\* C30: in ModelBuilder a save request is sent only with the sessionId returned
\* by the most recent training attempt: starting a training clears sessionId
\* and trainMetrics, a failed training leaves sessionId null and no save is
\* sent without one, and loadingTrain and savingModel are false whenever no
\* request of their handler is outstanding.
C30_SaveSendsLatestSession ==
  /\ [][ (builder.save # "posted" /\ builder'.save = "posted")
           => /\ builder'.saveSid # 0
              /\ builder'.saveSid = builder'.attempts
              /\ builder'.train = "none" ]_vars
  /\ [][ (builder'.attempts # builder.attempts)
           => (builder'.sessionId = 0 /\ builder'.trainMetrics = 0) ]_vars
  /\ [][ TrainSettle("fail") => builder'.sessionId = 0 ]_vars
  /\ [](builder.train = "none" => ~builder.loadingTrain)
  /\ [](builder.save = "none" => ~builder.savingModel)

====
